---- MODULE Spec2Model ----
(***************************************************************************)
(* NovelAlertsModel (src/src/models/novel_alerts_model.py): the ledger of  *)
(* tracked URLs, its csv file, the scraper dispatch, the diff engine, the  *)
(* notifier and the public operations.  Every public operation runs to     *)
(* completion before the next begins (single-threaded, synchronous), so    *)
(* each one is one action.  The variable `last` records what the last      *)
(* operation was given, what it saw and what it did.                       *)
(***************************************************************************)
EXTENDS Integers, Sequences, FiniteSets, TLC

VARIABLES url_data, URL_file, user_email, email_file, password, io_failures, last

vars == <<url_data, URL_file, user_email, email_file, password, io_failures, last>>

-----------------------------------------------------------------------------
(* Bounds and input sets *)

\* most records the ledger holds in the model
MaxLedger == 2

\* most failed open() calls in one run
MaxFailures == 1

\* URLs as the sequence of their path words; substring tests look at words
WLN_URL == <<"wln", "series-id">>
NU_URL == <<"novelupdates", "series">>
OTHER_URL == <<"wln", "series">>
URLs == {WLN_URL, NU_URL, OTHER_URL}

\* chapter tokens are strings of digits, a string being the sequence of its
\* characters: "5", "9", "10"
Tokens == {<<5>>, <<9>>, <<1, 0>>}

Emails == {"a@mail", "b@mail"}
Passwords == {"", "secret"}

\* Python's None, and a returned string s, as a sequence of length 0 or 1
None == << >>
Some(s) == <<s>>

\* what one fetch-and-extract of a page gives: a token, or an exception
PageOutcomes == {None} \cup {Some(t) : t \in Tokens}

\* what open() of a file for writing does
IOOutcomes == {"ok", "error"}

\* what the mail relay does: it refuses the connection, the login or the
\* mail, or it takes the mail
MailOutcomes == {"connect error", "login error", "sendmail error", "ok"}

FIELD_NAMES == <<"URL", "latestChapter">>

-----------------------------------------------------------------------------
(* Pure helpers *)

Min(a, b) == IF a < b THEN a ELSE b

\* Python's str < str: the first differing character decides, a proper
\* prefix is smaller
StrLess(a, b) ==
    \/ \E i \in 1..Min(Len(a), Len(b)) :
          /\ \A j \in 1..(i - 1) : a[j] = b[j]
          /\ a[i] < b[i]
    \/ /\ Len(a) < Len(b)
       /\ \A j \in 1..Len(a) : a[j] = b[j]

\* Python's `s in URL` for the words the dispatch looks for
WordContains(w, s) == w = s \/ (w = "series-id" /\ s = "series")
Contains(URL, s) == \E i \in DOMAIN URL : WordContains(URL[i], s)

Row(URL, chapter) == [URL |-> URL, latestChapter |-> chapter]

URLsOf(data) == {data[i].URL : i \in DOMAIN data}

Unique(data) == \A i, j \in DOMAIN data : data[i].URL = data[j].URL => i = j

\* csv.DictWriter.writerow: the fields of the dict in FIELD_NAMES order
writerow(dict_) == <<dict_.URL, dict_.latestChapter>>

\* csv.DictReader: each line after the header becomes a dict keyed by the header
load_URL_Data(file) == [i \in DOMAIN file.rows |-> Row(file.rows[i][1], file.rows[i][2])]

\* the rewrite without its loop over the records
write_header_only(data) == [header |-> TRUE, rows |-> << >>]

\* the file after a whole rewrite: header, then one line per record
write_URL_data_to_file(data) == [header |-> TRUE, rows |-> [i \in DOMAIN data |-> writerow(data[i])]]

-----------------------------------------------------------------------------
(* Site scraper *)

MsgBadURL == "ERROR: URL is not correct or from wlnupdates or novelupdates domain"
MsgNoChapter == "ERROR: Could not find the latest chapter and was not entered into the data."

\* page[URL] is what fetching URL and extracting the chapter gives
webscrape_WLN_Latest_Chapter(URL, page) ==
    IF page[URL] # None
    THEN [result |-> page[URL], reported |-> << >>]
    ELSE [result |-> None, reported |-> <<MsgNoChapter>>]

webscrape_Novelupdates_Latest_Chapter(URL, page) ==
    IF page[URL] # None
    THEN [result |-> page[URL], reported |-> << >>]
    ELSE [result |-> None, reported |-> <<MsgNoChapter>>]

\* the first dispatch rule with `or` for `and`
IsWLN_or(URL) == Contains(URL, "wln") \/ Contains(URL, "series-id")

IsWLN(URL) == Contains(URL, "wln") /\ Contains(URL, "series-id")
IsNovelupdates(URL) == Contains(URL, "novelupdates") /\ Contains(URL, "series")

get_Latest_Chapter_URL_Filtered(URL, page) ==
    IF IsWLN(URL)
    THEN webscrape_WLN_Latest_Chapter(URL, page)
    ELSE IF IsNovelupdates(URL)
    THEN webscrape_Novelupdates_Latest_Chapter(URL, page)
    ELSE [result |-> None, reported |-> <<MsgBadURL>>]

\* the URLs among S that are fetched at all
Fetched(S) == {URL \in S : IsWLN(URL) \/ IsNovelupdates(URL)}

-----------------------------------------------------------------------------
(* Diff engine *)

\* the number a string of digits writes
RECURSIVE Numeric(_)
Numeric(str) == IF str = << >> THEN 0 ELSE 10 * Numeric(SubSeq(str, 1, Len(str) - 1)) + str[Len(str)]

\* the comparison of line 152 on chapter numbers instead of strings
IsNewerNumeric(stored, latest_chapter) == Numeric(stored) < Numeric(latest_chapter)

\* the comparison of line 152 with <= for <
IsNewerOrEqual(stored, latest_chapter) ==
    stored = latest_chapter \/ StrLess(stored, latest_chapter)

\* the comparison of line 152
IsNewer(stored, latest_chapter) == StrLess(stored, latest_chapter)

\* the loop of _compile_updated_URLS from record i on; acc carries the list
\* of updated URLs, the ledger as updated so far, what each scrape returned
\* and what was reported
RECURSIVE compile_loop(_, _, _)
compile_loop(i, page, acc) ==
    IF i > Len(acc.data) THEN acc
    ELSE LET dict_ == acc.data[i]
             s == get_Latest_Chapter_URL_Filtered(dict_.URL, page)
             seen == [acc EXCEPT !.scraped = Append(@, s.result),
                                 !.reported = @ \o s.reported]
         IN  IF s.result = None
             THEN compile_loop(i + 1, page, seen)
             ELSE IF IsNewer(dict_.latestChapter, s.result[1])
             THEN compile_loop(i + 1, page,
                      [seen EXCEPT !.updated_URLS = Append(@, dict_.URL),
                                   !.data[i].latestChapter = s.result[1]])
             ELSE compile_loop(i + 1, page, seen)

\* the loop with `break` for `continue` at line 150
RECURSIVE compile_loop_break(_, _, _)
compile_loop_break(i, page, acc) ==
    IF i > Len(acc.data) THEN acc
    ELSE LET dict_ == acc.data[i]
             s == get_Latest_Chapter_URL_Filtered(dict_.URL, page)
             seen == [acc EXCEPT !.scraped = Append(@, s.result),
                                 !.reported = @ \o s.reported]
         IN  IF s.result = None
             THEN seen
             ELSE IF IsNewer(dict_.latestChapter, s.result[1])
             THEN compile_loop_break(i + 1, page,
                      [seen EXCEPT !.updated_URLS = Append(@, dict_.URL),
                                   !.data[i].latestChapter = s.result[1]])
             ELSE compile_loop_break(i + 1, page, seen)

compile_updated_URLS_break(data, page) ==
    compile_loop_break(1, page, [updated_URLS |-> << >>, data |-> data,
                                 scraped |-> << >>, reported |-> << >>])

compile_updated_URLS(data, page) ==
    compile_loop(1, page, [updated_URLS |-> << >>, data |-> data,
                           scraped |-> << >>, reported |-> << >>])

-----------------------------------------------------------------------------
(* Notifier *)

MsgAuth == "ERROR: Email or password is incorrect!"
MsgConn == "ERROR: Server connection could not be established!"

\* the message body: every URL followed by a newline
RECURSIVE integrate_Updated_URLS(_)
integrate_Updated_URLS(updated_URLS) ==
    IF updated_URLS = << >> THEN << >>
    ELSE (Head(updated_URLS) \o <<"\n">>) \o integrate_Updated_URLS(Tail(updated_URLS))

\* the relay accepts a login only with a password
LoginAccepted(mail, pw) == mail # "login error" /\ pw # ""

\* the session without its inner try: a refused login is caught by the
\* outer handler
send_Email_no_inner_try(updated_URLS, email, pw, mail) ==
    LET message == integrate_Updated_URLS(updated_URLS) IN
    IF mail = "connect error"
    THEN [events |-> <<"connect">>, reported |-> <<MsgConn>>, sent |-> << >>]
    ELSE IF ~LoginAccepted(mail, pw)
    THEN [events |-> <<"connect", "login">>, reported |-> <<MsgConn>>, sent |-> << >>]
    ELSE IF mail = "sendmail error"
    THEN [events |-> <<"connect", "login", "sendmail">>, reported |-> <<MsgConn>>,
          sent |-> << >>]
    ELSE [events |-> <<"connect", "login", "sendmail">>, reported |-> << >>,
          sent |-> <<[from |-> email, to |-> email, body |-> message]>>]

\* one SMTP_SSL session: connect, login, sendmail, each at most once
send_Email(updated_URLS, email, pw, mail) ==
    LET message == integrate_Updated_URLS(updated_URLS) IN
    IF mail = "connect error"
    THEN [events |-> <<"connect">>, reported |-> <<MsgConn>>, sent |-> << >>]
    ELSE IF ~LoginAccepted(mail, pw)
    THEN [events |-> <<"connect", "login">>, reported |-> <<MsgAuth>>, sent |-> << >>]
    ELSE IF mail = "sendmail error"
    THEN [events |-> <<"connect", "login", "sendmail">>, reported |-> <<MsgAuth>>,
          sent |-> << >>]
    ELSE [events |-> <<"connect", "login", "sendmail">>, reported |-> << >>,
          sent |-> <<[from |-> email, to |-> email, body |-> message]>>]

-----------------------------------------------------------------------------
(* State *)

\* the record of an operation: its name and URL argument, the ledger and the
\* file before it, what the scraper returned for each record, the diff
\* engine's list, what was done in order, what went to the message box, the
\* list the notifier was called with and what the relay did then, the mails
\* delivered, and whether an exception left the operation
Call(op, URL) ==
    [op |-> op, URL |-> URL, pre_data |-> url_data, pre_file |-> URL_file,
     scraped |-> << >>, updated_URLS |-> << >>, events |-> << >>,
     reported |-> << >>, notified |-> << >>, mail |-> "", sent |-> << >>,
     raised |-> FALSE]

\* ledgers a csv file can hold at start-up; the token of a record whose URL
\* no dispatch rule matches is never compared, so one token stands for all
Ledgers ==
    UNION {[1..n -> [URL : URLs, latestChapter : Tokens]] : n \in 0..MaxLedger}
UniqueLedgers ==
    {d \in Ledgers : /\ Unique(d)
                     /\ \A i \in DOMAIN d :
                           d[i].URL = OTHER_URL => d[i].latestChapter = <<5>>}

\* __init__: the email and the ledger are loaded from their files; a file
\* with no records is written anew with its header
Init ==
    /\ \E d \in UniqueLedgers : URL_file = write_URL_data_to_file(d)
    /\ url_data = load_URL_Data(URL_file)
    /\ email_file = "a@mail"
    /\ user_email = email_file
    /\ password = ""
    /\ io_failures = 0
    /\ last = [Call("init", << >>) EXCEPT
                   !.events = IF url_data = << >> THEN <<"write">> ELSE << >>]

-----------------------------------------------------------------------------
(* Operations *)

MsgCheckFailed == "Error: Webscraper did not work. If this continues then restart program."
MsgDuplicate == "ERROR: URL is already in data structure"
MsgSuccess == "Success"
MsgNotFound == "Error: URL is not within existing data or not correct!"

\* _webscrape_Check: page is what each site serves, mail what the relay
\* does, io what opening the ledger file for writing does
webscrape_Check(page, mail, io) ==
    IF url_data = << >>
    THEN /\ last' = Call("check", << >>)
         /\ UNCHANGED <<url_data, URL_file, user_email, email_file, password, io_failures>>
    ELSE
      LET c == compile_updated_URLS(url_data, page)
          seen == [Call("check", << >>) EXCEPT !.scraped = c.scraped,
                                               !.updated_URLS = c.updated_URLS,
                                               !.reported = c.reported]
      IN  /\ url_data' = c.data
          /\ UNCHANGED <<user_email, email_file, password>>
          /\ IF c.updated_URLS = << >>
             THEN /\ UNCHANGED <<URL_file, io_failures>>
                  /\ last' = seen
             ELSE IF io # "ok"
             THEN /\ URL_file' = URL_file
                  /\ io_failures < MaxFailures
                  /\ io_failures' = io_failures + 1
                  /\ last' = [seen EXCEPT !.events = <<"write failed">>,
                                          !.reported = @ \o <<MsgCheckFailed>>]
             ELSE LET m == send_Email(c.updated_URLS, user_email, password, mail)
                  IN  /\ URL_file' = write_URL_data_to_file(c.data)
                      /\ UNCHANGED io_failures
                      /\ last' = [seen EXCEPT !.events = <<"write", "send_Email">> \o m.events,
                                              !.reported = @ \o m.reported,
                                              !.notified = <<c.updated_URLS>>,
                                              !.mail = mail,
                                              !.sent = m.sent]

\* the loop of lines 212-215 with != for ==
URL_in_data_inverted(data, URL) == \E i \in DOMAIN data : data[i].URL # URL

\* the loop of lines 212-215: some record has this URL
URL_in_data(data, URL) == \E i \in DOMAIN data : data[i].URL = URL

\* addURLData: page is what the site serves for URL, io what opening the
\* ledger file for appending does
addURLData(URL, page, io) ==
    IF URL_in_data(url_data, URL)
    THEN /\ last' = [Call("add", URL) EXCEPT !.reported = <<MsgDuplicate>>]
         /\ UNCHANGED <<url_data, URL_file, user_email, email_file, password, io_failures>>
    ELSE
      LET s == get_Latest_Chapter_URL_Filtered(URL, page)
          seen == [Call("add", URL) EXCEPT !.scraped = <<s.result>>,
                                           !.reported = s.reported]
      IN  IF s.result = None
          THEN /\ last' = seen
               /\ UNCHANGED <<url_data, URL_file, user_email, email_file, password, io_failures>>
          ELSE LET dict_row == Row(URL, s.result[1])
               IN  /\ Len(url_data) < MaxLedger
                   /\ url_data' = Append(url_data, dict_row)
                   /\ UNCHANGED <<user_email, email_file, password>>
                   /\ IF io = "ok"
                      THEN /\ URL_file' = [URL_file EXCEPT !.rows = Append(@, writerow(dict_row))]
                           /\ UNCHANGED io_failures
                           /\ last' = [seen EXCEPT !.events = <<"append">>]
                      ELSE /\ URL_file' = URL_file
                           /\ io_failures < MaxFailures
                           /\ io_failures' = io_failures + 1
                           /\ last' = [seen EXCEPT !.events = <<"append failed">>,
                                                   !.raised = TRUE]

\* list.pop() for list.remove(x): the last element goes
remove_last(data, x) == SubSeq(data, 1, Len(data) - 1)

\* list.remove(x): the first element equal to x goes
remove(data, x) ==
    LET j == CHOOSE k \in DOMAIN data :
                 /\ data[k] = x
                 /\ \A m \in 1..(k - 1) : data[m] # x
    IN  [k \in 1..(Len(data) - 1) |-> IF k < j THEN data[k] ELSE data[k + 1]]

\* deleteURLData: io is what opening the ledger file for writing does
deleteURLData(URL, io) ==
    IF \E i \in DOMAIN url_data : url_data[i].URL = URL
    THEN LET i == CHOOSE k \in DOMAIN url_data :
                      /\ url_data[k].URL = URL
                      /\ \A m \in 1..(k - 1) : url_data[m].URL # URL
             data == remove(url_data, url_data[i])
         IN  /\ url_data' = data
             /\ UNCHANGED <<user_email, email_file, password>>
             /\ IF io = "ok"
                THEN /\ URL_file' = write_URL_data_to_file(data)
                     /\ UNCHANGED io_failures
                     /\ last' = [Call("delete", URL) EXCEPT !.reported = <<MsgSuccess>>,
                                                            !.events = <<"write">>]
                ELSE /\ URL_file' = URL_file
                     /\ io_failures < MaxFailures
                     /\ io_failures' = io_failures + 1
                     /\ last' = [Call("delete", URL) EXCEPT !.reported = <<MsgSuccess>>,
                                                            !.events = <<"write failed">>,
                                                            !.raised = TRUE]
    ELSE /\ last' = [Call("delete", URL) EXCEPT !.reported = <<MsgNotFound>>]
         /\ UNCHANGED <<url_data, URL_file, user_email, email_file, password, io_failures>>

\* _set_URL_data: the ledger is replaced and the file rewritten
set_URL_data(URL_data, io) ==
    /\ url_data' = URL_data
    /\ UNCHANGED <<user_email, email_file, password>>
    /\ IF io = "ok"
       THEN /\ URL_file' = write_URL_data_to_file(URL_data)
            /\ UNCHANGED io_failures
            /\ last' = [Call("set", << >>) EXCEPT !.events = <<"write">>]
       ELSE /\ URL_file' = URL_file
            /\ io_failures < MaxFailures
            /\ io_failures' = io_failures + 1
            /\ last' = [Call("set", << >>) EXCEPT !.events = <<"write failed">>,
                                                  !.raised = TRUE]

\* setEmail: io is what opening the email file for writing does
setEmail(email, io) ==
    /\ user_email' = email
    /\ UNCHANGED <<url_data, URL_file, password>>
    /\ IF io = "ok"
       THEN /\ email_file' = email
            /\ UNCHANGED io_failures
            /\ last' = [Call("setEmail", << >>) EXCEPT !.events = <<"write email">>]
       ELSE /\ email_file' = email_file
            /\ io_failures < MaxFailures
            /\ io_failures' = io_failures + 1
            /\ last' = [Call("setEmail", << >>) EXCEPT !.events = <<"write email failed">>,
                                                       !.raised = TRUE]

setPassword(pw) ==
    /\ password' = pw
    /\ last' = Call("setPassword", << >>)
    /\ UNCHANGED <<url_data, URL_file, user_email, email_file, io_failures>>

\* the callers of _set_URL_data hand it ledgers that keep URLs unique
SetInputs == {d \in UniqueLedgers : \A i \in DOMAIN d : d[i].latestChapter = <<5>>}

\* an exception that leaves an operation ends the run: what the caller
\* does with it is not the model's
Running == ~last.raised

\* one public operation; faults is what the file system may do at open()
Step(faults) ==
    \/ \E page \in [Fetched(URLsOf(url_data)) -> PageOutcomes], mail \in MailOutcomes,
          io \in faults :
          Running /\ webscrape_Check(page, mail, io)
    \/ \E URL \in URLs, io \in faults :
          \E page \in [Fetched({URL}) -> PageOutcomes] :
             Running /\ addURLData(URL, page, io)
    \/ \E URL \in URLs, io \in faults : Running /\ deleteURLData(URL, io)
    \/ \E URL_data \in SetInputs, io \in faults : Running /\ set_URL_data(URL_data, io)
    \/ \E email \in Emails, io \in faults : Running /\ setEmail(email, io)
    \/ \E pw \in Passwords : Running /\ setPassword(pw)

\* the file system never fails
Next == Step({"ok"})

\* opening a file for writing may fail
NextFaults == Step(IOOutcomes)

Spec == Init /\ [][Next]_vars

SpecFaults == Init /\ [][NextFaults]_vars

-----------------------------------------------------------------------------
(* Properties *)

Count(seq, x) == Cardinality({i \in DOMAIN seq : seq[i] = x})

InSeq(seq, x) == \E i \in DOMAIN seq : seq[i] = x

\* the URLs of the records whose token differs between two ledgers of the
\* same length, in ledger order
RECURSIVE ChangedURLs(_, _)
ChangedURLs(pre, post) ==
    IF pre = << >> THEN << >>
    ELSE (IF Head(pre).latestChapter # Head(post).latestChapter
          THEN <<Head(pre).URL>> ELSE << >>)
         \o ChangedURLs(Tail(pre), Tail(post))

\* the lines of a message body, each without its newline
RECURSIVE SplitLines(_, _)
SplitLines(body, line) ==
    IF body = << >> THEN << >>
    ELSE IF Head(body) = "\n" THEN <<line>> \o SplitLines(Tail(body), << >>)
    ELSE SplitLines(Tail(body), Append(line, Head(body)))
Lines(body) == SplitLines(body, << >>)

Checked == last.op = "check" /\ last.pre_data # << >>

\* C1: in a check, a record whose scraped token is strictly greater than
\* its stored token in string order is reported and takes the scraped
\* token; a record whose scraped token is equal or smaller is not reported
\* and keeps its token.  "5" -> "6" is an update, "5" -> "3" and
\* "9" -> "10" are not.
C1_DiffRule ==
    /\ IsNewer(<<5>>, <<6>>) /\ ~IsNewer(<<5>>, <<3>>) /\ ~IsNewer(<<9>>, <<1, 0>>)
    /\ Checked =>
         /\ Len(url_data) = Len(last.pre_data)
         /\ Len(last.scraped) = Len(last.pre_data)
         /\ \A i \in DOMAIN last.pre_data :
              LET stored == last.pre_data[i].latestChapter
                  URL == last.pre_data[i].URL
              IN  /\ url_data[i].URL = URL
                  /\ last.scraped[i] # None =>
                       IF StrLess(stored, last.scraped[i][1])
                       THEN /\ InSeq(last.updated_URLS, URL)
                            /\ url_data[i].latestChapter = last.scraped[i][1]
                       ELSE /\ ~InSeq(last.updated_URLS, URL)
                            /\ url_data[i].latestChapter = stored

\* a check that met stored "9" with scraped "10" (no update) and another
\* record with a greater token (update)
C1_Witness ==
    /\ Checked
    /\ \E i \in DOMAIN last.pre_data :
          /\ last.pre_data[i].latestChapter = <<9>>
          /\ last.scraped[i] = Some(<<1, 0>>)
    /\ last.updated_URLS # << >>

\* C2: no two records of the ledger share a URL, whatever operations ran
\* and whatever the scraper returned; adding a URL that is already present
\* changes neither the length nor the content of the ledger.
C2_UniqueURLs ==
    /\ Unique(url_data)
    /\ (last.op = "add" /\ last.URL \in URLsOf(last.pre_data)) => url_data = last.pre_data

\* an add of a URL that the ledger already holds
C2_Witness ==
    /\ last.op = "add"
    /\ last.URL \in URLsOf(last.pre_data)
    /\ Len(url_data) = 2

C4_AbsentSkipsRecord ==
    Checked =>
      /\ ~last.raised
      /\ Len(last.scraped) = Len(last.pre_data)
      /\ \A i \in DOMAIN last.pre_data :
           last.scraped[i] = None =>
             /\ url_data[i] = last.pre_data[i]
             /\ ~InSeq(last.updated_URLS, last.pre_data[i].URL)
             /\ \A j \in DOMAIN last.pre_data :
                  (j > i /\ last.scraped[j] # None
                   /\ StrLess(last.pre_data[j].latestChapter, last.scraped[j][1])) =>
                     /\ InSeq(last.updated_URLS, last.pre_data[j].URL)
                     /\ url_data[j].latestChapter = last.scraped[j][1]

\* a check whose first scrape failed and whose second record was updated
C4_Witness ==
    /\ Checked
    /\ Len(last.pre_data) = 2
    /\ last.scraped[1] = None
    /\ last.updated_URLS = <<last.pre_data[2].URL>>

\* the dispatch rules, on the words of a URL
Dispatched(URL) ==
    LET words == {URL[i] : i \in DOMAIN URL} IN
    \/ "wln" \in words /\ "series-id" \in words
    \/ "novelupdates" \in words /\ words \cap {"series", "series-id"} # {}

Untouched == url_data = last.pre_data /\ URL_file = last.pre_file

\* C5: adding a URL that is already in the ledger, adding a URL that no
\* dispatch rule matches, and deleting a URL that is not in the ledger each
\* report an error and leave the ledger and its file as they were.
C5_ValidationNoChange ==
    /\ (last.op = "add" /\ last.URL \in URLsOf(last.pre_data)) =>
          last.reported = <<MsgDuplicate>> /\ Untouched /\ ~last.raised
    /\ (last.op = "add" /\ last.URL \notin URLsOf(last.pre_data) /\ ~Dispatched(last.URL)) =>
          last.reported = <<MsgBadURL>> /\ Untouched /\ ~last.raised
    /\ (last.op = "delete" /\ last.URL \notin URLsOf(last.pre_data)) =>
          last.reported = <<MsgNotFound>> /\ Untouched /\ ~last.raised

\* an add of a URL that no dispatch rule matches, to a ledger without it
C5_Witness ==
    /\ last.op = "add"
    /\ last.URL = OTHER_URL
    /\ last.pre_data # << >>
    /\ last.URL \notin URLsOf(last.pre_data)

C7_FileMirrorsLedger ==
    ~last.raised =>
      /\ URL_file.header
      /\ load_URL_Data(URL_file) = url_data

\* C8: no failure leaves a public operation as an exception: it becomes a
\* message and the operation returns.
C8_NoFailurePropagates ==
    /\ ~last.raised
    /\ (InSeq(last.events, "write failed") \/ InSeq(last.events, "append failed")
        \/ InSeq(last.events, "write email failed")) => last.reported # << >>

\* C9: a call of the notifier connects at most once and sends at most once;
\* a refused connection is reported as such and nothing is sent; a refused
\* login is reported as such and nothing is sent; what is sent is one
\* message that lists all updated URLs; nothing is raised to the check.
C9_NotifierOneShot ==
    (last.op = "check" /\ last.notified # << >>) =>
      /\ Len(last.notified) = 1
      /\ Count(last.events, "connect") <= 1
      /\ Count(last.events, "login") <= 1
      /\ Count(last.events, "sendmail") <= 1
      /\ Len(last.sent) <= 1
      /\ last.mail = "connect error" =>
           /\ InSeq(last.reported, MsgConn)
           /\ last.sent = << >>
           /\ Count(last.events, "login") = 0 /\ Count(last.events, "sendmail") = 0
      /\ (last.mail # "connect error" /\ (last.mail = "login error" \/ password = "")) =>
           /\ InSeq(last.reported, MsgAuth)
           /\ last.sent = << >>
           /\ Count(last.events, "sendmail") = 0
      /\ (last.mail = "ok" /\ password # "") => Len(last.sent) = 1
      /\ last.sent # << >> =>
           /\ Lines(last.sent[1].body) = last.notified[1]
           /\ last.sent[1].from = user_email /\ last.sent[1].to = user_email
      /\ ~last.raised
      /\ ~InSeq(last.reported, MsgCheckFailed)

\* a digest of two URLs whose login was refused
C9_Witness ==
    /\ last.op = "check"
    /\ last.notified # << >>
    /\ Len(last.notified[1]) = 2
    /\ last.mail = "login error"
    /\ password # ""

\* the tokens replaced in the last check are in memory, and on file once
\* the notifier has been called, whatever the relay did
KeptAfterCheck ==
    (Checked /\ last.updated_URLS # << >>) =>
      \A i \in DOMAIN last.pre_data :
        InSeq(last.updated_URLS, last.pre_data[i].URL) =>
          /\ url_data[i].latestChapter = last.scraped[i][1]
          /\ last.notified # << >> =>
               /\ i \in DOMAIN URL_file.rows
               /\ load_URL_Data(URL_file)[i] = url_data[i]

\* a check right after a check: a URL reported by the first, for which the
\* scraper returns the same token again, is not reported by the second
NotReportedAgain ==
    (Checked /\ last'.op = "check") =>
      \A i \in DOMAIN last.pre_data :
        (/\ InSeq(last.updated_URLS, last.pre_data[i].URL)
         /\ i \in DOMAIN last'.scraped
         /\ last'.scraped[i] = Some(url_data[i].latestChapter)) =>
           /\ ~InSeq(last'.updated_URLS, last.pre_data[i].URL)
           /\ \A k \in DOMAIN last'.notified : ~InSeq(last'.notified[k], last.pre_data[i].URL)
           /\ url_data'[i] = url_data[i]

\* C10: a detected update is reported at most once: the token replaced in a
\* check stays in memory and on file also when the notifier fails, and the
\* next check, if the scraper returns that token again, does not report the
\* URL and sends no digest for it.
C10_ReportedAtMostOnce == []KeptAfterCheck /\ [][NotReportedAgain]_vars

\* a check that replaced a token and whose digest was not delivered
C10_Witness ==
    /\ Checked
    /\ last.updated_URLS # << >>
    /\ last.notified # << >>
    /\ last.sent = << >>
    /\ \E i \in DOMAIN url_data :
          /\ url_data[i].URL = last.updated_URLS[1]
          /\ url_data[i].latestChapter = <<9>>
          /\ load_URL_Data(URL_file)[i].latestChapter = <<9>>

====
